---- MODULE Spec2Model ----
(***************************************************************************)
(* A model of scientificCalc.py: the expression buffer, the shift mode,    *)
(* the memory register and the history of AdvancedScientificCalculator,    *)
(* and the handlers that change them.                                      *)
(*                                                                         *)
(* Texts are sequences of one-character strings, so that slicing           *)
(* (expression[:-1]), replace('^', '**') and split("=") act on characters  *)
(* as they do in Python.  A history entry is the sequence of the pieces    *)
(* its f-string puts together.                                             *)
(***************************************************************************)
EXTENDS Integers, Sequences, FiniteSets, TLC

VARIABLES
    expression,   \* self.expression
    expr_var,     \* self.expr_var, the text of the entry widget
    history,      \* self.history
    shift_mode,   \* self.shift_mode
    memory,       \* self.memory: [float |-> BOOLEAN, val |-> Int]
    last,         \* the handler that ran last, with the state it started from
    applied,      \* the calls made so far, in the specifications that record them
    graph         \* the graph window: its entries, its function list, its plot

vars == <<expression, expr_var, history, shift_mode, memory, last, applied, graph>>

----------------------------------------------------------------------------
(* Bounds of the model.                                                    *)

\* The longest token sequence the input specification applies.
MaxTokens == 2

\* The largest coefficient, the largest exponent and the longest number the
\* model computes with; past them a value is Unknown.
MaxCoef == 1000
MaxExp == 3
MaxDigits == 2

\* click() and memory_recall() append to a buffer shorter than MaxLen; the
\* longest history a session reaches, and the largest register value.
MaxLen == 1
MaxHist == 1
MaxMem == 5

\* The number of calls of the memory handlers in a session of the memory
\* specification, and the largest register a round trip starts from.
MaxCalls == 2
MaxStart == 3

\* The number of entries the history holds when a session of the log
\* specification starts.
MaxPrior == 1

\* The number of functions added to plots in a session of the plot
\* specification.
MaxFuncs == 1

\* The longest buffer of x, y and = the ode specification types.
MaxOde == 3

\* The longest entry text of the key specification, and the number of keys
\* that are down at once.
MaxTyped == 3
MaxHeld == 2

----------------------------------------------------------------------------
(* Texts.                                                                  *)

Digits == {"0", "1", "2", "3", "4", "5", "6", "7", "8", "9"}

\* str.isdigit(): non-empty and every character a digit.
IsDigitText(key) == Len(key) > 0 /\ \A i \in 1..Len(key) : key[i] \in Digits

\* The one character U+221A of the square-root button's label.
RadicalSign == "U+221A"

\* The one character U+222B that opens integrate_expression's history entry.
IntegralSign == "U+222B"

\* The labels of the grid of buttons, row by row.
Buttons ==
    { <<"s","i","n">>, <<"c","o","s">>, <<"t","a","n">>, <<"l","o","g">>,
      <<"l","n">>, <<RadicalSign>>, <<"x","^","y">>, <<"e","x","p">>,
      <<"7">>, <<"8">>, <<"9">>, <<"/">>,
      <<"4">>, <<"5">>, <<"6">>, <<"*">>,
      <<"1">>, <<"2">>, <<"3">>, <<"+">>,
      <<"-">>, <<"0">>, <<".">>, <<"(">>,
      <<")">>, <<"p","i">>, <<"e">>, <<"C">>,
      <<"=">>, <<"D","e","l">>, <<"t","o","D","e","g">>, <<"t","o","R","a","d">>,
      <<"G","r","a","p","h">> }

\* The labels click() treats specially; every other label reaches its else branch.
TriggerKeys ==
    { <<"=">>, <<"C">>, <<"D","e","l">>, <<"t","o","D","e","g">>,
      <<"t","o","R","a","d">>, <<"G","r","a","p","h">> }

LiteralKeys == Buttons \ TriggerKeys

\* self.shift_mapping, as .get(key, key) reads it.
shift_mapping(key) ==
    CASE key = <<"7">> -> <<"x">>
      [] key = <<"8">> -> <<"y">>
      [] key = <<"9">> -> <<"z">>
      [] key = <<"4">> -> <<"a">>
      [] key = <<"5">> -> <<"b">>
      [] key = <<"6">> -> <<"c">>
      [] key = <<"1">> -> <<"d">>
      [] key = <<"2">> -> <<"e">>
      [] key = <<"3">> -> <<"f">>
      [] key = <<"0">> -> <<"g">>
      [] OTHER -> key

\* self.func_map; click() never reads it.
func_map ==
    [key \in { <<"s","i","n">>, <<"c","o","s">>, <<"t","a","n">>, <<"l","o","g">>,
               <<"l","n">>, <<RadicalSign>>, <<"e","x","p">>, <<"x","^","y">> } |->
        CASE key = <<RadicalSign>> -> <<"s","q","r","t","(">>
          [] key = <<"x","^","y">> -> <<"^">>
          [] OTHER -> key \o <<"(">>]

\* The keys of the module's allowed_names.
allowed_names ==
    { <<"s","i","n">>, <<"c","o","s">>, <<"t","a","n">>, <<"l","o","g">>,
      <<"l","n">>, <<"s","q","r","t">>, <<"e","x","p">>, <<"p","i">>, <<"e">> }

\* A variant of ClickText that maps a digit whatever the shift mode.
ClickTextUnconditional(key, shift) ==
    IF IsDigitText(key) THEN shift_mapping(key) ELSE key

\* The text the else branch of click() appends for key.
ClickText(key, shift) ==
    IF IsDigitText(key) /\ shift THEN shift_mapping(key) ELSE key

ErrorText == <<"E","r","r","o","r">>

\* str.replace(old, new) for a one-character old.
RECURSIVE Replace(_, _, _)
Replace(text, old, new) ==
    IF text = <<>> THEN <<>>
    ELSE (IF Head(text) = old THEN new ELSE <<Head(text)>>)
         \o Replace(Tail(text), old, new)

\* expression.replace('^', '**')
CaretToPower(text) == Replace(text, "^", <<"*","*">>)

\* str(n) for a Python int.
RECURSIVE NatStr(_)
NatStr(n) ==
    IF n < 10 THEN <<CHOOSE d \in Digits :
                       d = <<"0","1","2","3","4","5","6","7","8","9">>[n + 1]>>
    ELSE NatStr(n \div 10) \o NatStr(n % 10)

IntStr(n) == IF n < 0 THEN <<"-">> \o NatStr(-n) ELSE NatStr(n)

\* str(v) for a Python float of integral value (below 1e16): "3.0".
FloatStr(n) == IntStr(n) \o <<".","0">>

----------------------------------------------------------------------------
(* The expressions the model computes: sums of products of integers and    *)
(* the symbol x, written with + - * ** ^ and no parentheses.  Their values *)
(* are polynomials in x with integer coefficients, held as the sequence of *)
(* coefficients c0, c1, ... without trailing zeros; this is the form       *)
(* sympy's automatic simplification gives such an expression (x - x is 0,  *)
(* x*x is x**2).  Every other text is Unknown to the model: what an        *)
(* evaluator makes of it is left open.                                     *)

Letters ==
    { "a","b","c","d","e","f","g","h","i","j","k","l","m","n","o","p","q","r",
      "s","t","u","v","w","x","y","z","A","B","C","D","E","F","G","H","I","J",
      "K","L","M","N","O","P","Q","R","S","T","U","V","W","X","Y","Z","_" }

Poly(c) == [k |-> "poly", c |-> c, exc |-> ""]
Raise(e) == [k |-> "raise", c |-> <<>>, exc |-> e]
Unknown == [k |-> "unknown", c |-> <<>>, exc |-> ""]

Max(a, b) == IF a >= b THEN a ELSE b
Abs(n) == IF n < 0 THEN -n ELSE n

RECURSIVE Trim(_)
Trim(c) ==
    IF c # <<>> /\ c[Len(c)] = 0 THEN Trim(SubSeq(c, 1, Len(c) - 1)) ELSE c

Coef(c, i) == IF i <= Len(c) THEN c[i] ELSE 0

PolyAdd(a, b) == Trim([i \in 1..Max(Len(a), Len(b)) |-> Coef(a, i) + Coef(b, i)])
PolyNeg(a) == [i \in 1..Len(a) |-> -a[i]]

\* The coefficient of x^(k-1) in a*b: the sum of a[i]*b[k-i+1] for i from 1 to n.
RECURSIVE ConvSum(_, _, _, _)
ConvSum(a, b, k, n) ==
    IF n = 0 THEN 0
    ELSE ConvSum(a, b, k, n - 1)
         + (IF k - n + 1 >= 1 THEN Coef(a, n) * Coef(b, k - n + 1) ELSE 0)

PolyMul(a, b) ==
    IF a = <<>> \/ b = <<>> THEN <<>>
    ELSE Trim([k \in 1..(Len(a) + Len(b) - 1) |-> ConvSum(a, b, k, Len(a))])

\* A value too large for the model to carry.
TooBig(c) == \E i \in 1..Len(c) : Abs(c[i]) > MaxCoef

Sized(c) == IF TooBig(c) THEN Unknown ELSE Poly(c)

RECURSIVE PolyPow(_, _)
PolyPow(a, e) ==
    IF e = 0 THEN Poly(<<1>>)
    ELSE LET r == PolyPow(a, e - 1)
         IN  IF r.k = "poly" THEN Sized(PolyMul(r.c, a)) ELSE r

IsConst(c) == Len(c) <= 1
ConstVal(c) == Coef(c, 1)
SymbolX == <<0, 1>>

\* sympy's a ^ b: Boolean.__xor__ takes Boolean operands only and
\* Integer.__xor__ integers only, so a Symbol or a sum against a number, or a
\* sum against anything, is a TypeError.  Two integers, or two Symbols, give
\* a value the model does not carry.
SymXor(a, b) ==
    IF (IsConst(a) /\ IsConst(b)) \/ (a = SymbolX /\ b = SymbolX)
    THEN Unknown
    ELSE Raise("TypeError")

\* One binary operation on two evaluated operands, left operand first.
Apply(o, v, w) ==
    IF v.k # "poly" THEN v
    ELSE IF w.k # "poly" THEN w
    ELSE CASE o = "+" -> Sized(PolyAdd(v.c, w.c))
           [] o = "-" -> Sized(PolyAdd(v.c, PolyNeg(w.c)))
           [] o = "*" -> Sized(PolyMul(v.c, w.c))
           [] o = "**" -> IF IsConst(w.c) /\ ConstVal(w.c) >= 0
                             /\ ConstVal(w.c) <= MaxExp
                          THEN PolyPow(v.c, ConstVal(w.c))
                          ELSE Unknown
           [] o = "^" -> SymXor(v.c, w.c)

NumTok(n) == [t |-> "num", n |-> n, o |-> ""]
NameX == [t |-> "name", n |-> 0, o |-> "x"]
OpTok(o) == [t |-> "op", n |-> 0, o |-> o]
OtherTok == [t |-> "other", n |-> 0, o |-> ""]

\* The end of the run of characters of set that starts at i.
RECURSIVE RunEnd(_, _, _)
RunEnd(text, i, set) ==
    IF i < Len(text) /\ text[i + 1] \in set THEN RunEnd(text, i + 1, set) ELSE i

DigitVal(d) == CHOOSE n \in 0..9 : NatStr(n) = <<d>>

RECURSIVE NumVal(_)
NumVal(ds) ==
    IF ds = <<>> THEN 0
    ELSE 10 * NumVal(SubSeq(ds, 1, Len(ds) - 1)) + DigitVal(ds[Len(ds)])

\* The tokens of text from position i on.  A number is a run of digits; one
\* with a leading zero, one too long for the model, or a 0 running into a
\* letter (0x.., 0b..) is not a token of the model's expressions.  A name is
\* a run of letters and digits; only the name x is.
RECURSIVE Lex(_, _)
Lex(text, i) ==
    IF i > Len(text) THEN <<>>
    ELSE LET ch == text[i] IN
         IF ch \in Digits THEN
            LET j == RunEnd(text, i, Digits)
                ds == SubSeq(text, i, j)
                bad == \/ (ds[1] = "0" /\ Len(ds) > 1)
                       \/ Len(ds) > MaxDigits
                       \/ (ds[1] = "0" /\ j < Len(text) /\ text[j + 1] \in Letters)
            IN  <<IF bad THEN OtherTok ELSE NumTok(NumVal(ds))>> \o Lex(text, j + 1)
         ELSE IF ch \in Letters THEN
            LET j == RunEnd(text, i, Letters \cup Digits)
            IN  <<IF SubSeq(text, i, j) = <<"x">> THEN NameX ELSE OtherTok>>
                \o Lex(text, j + 1)
         ELSE IF ch = "*" /\ i < Len(text) /\ text[i + 1] = "*" THEN
            <<OpTok("**")>> \o Lex(text, i + 2)
         ELSE IF ch \in {"+", "-", "*", "^"} THEN
            <<OpTok(ch)>> \o Lex(text, i + 1)
         ELSE <<OtherTok>> \o Lex(text, i + 1)

IsOperand(tok) == tok.t \in {"num", "name"}

\* implicit_multiplication_application on these tokens: a * between a number
\* and the name that follows it ("2x" -> "2*x").
RECURSIVE ImplicitMul(_)
ImplicitMul(toks) ==
    IF Len(toks) < 2 THEN toks
    ELSE IF toks[1].t = "num" /\ toks[2].t = "name"
         THEN <<toks[1], OpTok("*")>> \o ImplicitMul(Tail(toks))
         ELSE <<toks[1]>> \o ImplicitMul(Tail(toks))

HasAdjacentOperands(toks) ==
    \E i \in 1..(Len(toks) - 1) : IsOperand(toks[i]) /\ IsOperand(toks[i + 1])

\* operand (operator operand)*
Alternates(toks) ==
    /\ Len(toks) % 2 = 1
    /\ \A i \in 1..Len(toks) :
          IF i % 2 = 1 THEN IsOperand(toks[i]) ELSE toks[i].t = "op"

OperandValue(tok) == IF tok.t = "num" THEN Poly(Trim(<<tok.n>>)) ELSE Poly(SymbolX)

\* The operands of toks replaced by their values.
Valued(toks) ==
    [i \in 1..Len(toks) |-> IF i % 2 = 1 THEN OperandValue(toks[i]) ELSE toks[i]]

\* alt with the operation at position j carried out.
Fold(alt, j) ==
    SubSeq(alt, 1, j - 2)
    \o <<Apply(alt[j].o, alt[j - 1], alt[j + 1])>>
    \o SubSeq(alt, j + 2, Len(alt))

OpsAt(alt, ops) == {j \in 1..Len(alt) : j % 2 = 0 /\ alt[j].o \in ops}

SetMax(S) == CHOOSE m \in S : \A n \in S : n <= m
SetMin(S) == CHOOSE m \in S : \A n \in S : m <= n

\* ** binds tightest and groups from the right.
RECURSIVE PowPass(_)
PowPass(alt) ==
    IF OpsAt(alt, {"**"}) = {} THEN alt
    ELSE PowPass(Fold(alt, SetMax(OpsAt(alt, {"**"}))))

\* The other operators group from the left.
RECURSIVE LeftPass(_, _)
LeftPass(alt, ops) ==
    IF OpsAt(alt, ops) = {} THEN alt
    ELSE LeftPass(Fold(alt, SetMin(OpsAt(alt, ops))), ops)

NegValue(v) == IF v.k = "poly" THEN Poly(PolyNeg(v.c)) ELSE v

\* Python's precedence: **, then the unary minus, then *, then + and -, then ^.
Evaluated(toks, neg) ==
    LET p == PowPass(Valued(toks))
        u == IF neg THEN <<NegValue(p[1])>> \o Tail(p) ELSE p
        m == LeftPass(u, {"*"})
        a == LeftPass(m, {"+", "-"})
        x == LeftPass(a, {"^"})
    IN  x[1]

\* The value of a token sequence under Python's grammar.
Grammar(toks) ==
    IF toks = <<>> THEN Raise("SyntaxError")
    ELSE IF \E i \in 1..Len(toks) : toks[i].t = "other" THEN Unknown
    ELSE IF HasAdjacentOperands(toks) THEN Raise("SyntaxError")
    ELSE IF toks[Len(toks)].t = "op" THEN Raise("SyntaxError")
    ELSE IF toks[1].t = "op" /\ toks[1].o \in {"*", "**", "^"} THEN Raise("SyntaxError")
    ELSE IF Alternates(toks) THEN Evaluated(toks, FALSE)
    ELSE IF toks[1].t = "op" /\ toks[1].o = "-" /\ Alternates(Tail(toks))
         THEN Evaluated(Tail(toks), TRUE)
    ELSE Unknown

\* parse_expr(text, transformations=transformations)
parse_expr(text) == Grammar(ImplicitMul(Lex(text, 1)))

HasName(toks) == \E i \in 1..Len(toks) : toks[i].t = "name"

\* eval(text, {"__builtins__": None}, allowed_names) of Python: the same
\* grammar without the implicit multiplication; x is not among allowed_names.
python_eval(text) ==
    LET toks == Lex(text, 1)
        v == Grammar(toks)
    IN  IF v.k = "raise" THEN v
        ELSE IF HasName(toks) /\ ~\E i \in 1..Len(toks) : toks[i].t = "other"
             THEN Raise("NameError")
        ELSE v

----------------------------------------------------------------------------
(* What the evaluators return.                                             *)

\* A text the model does not compute: a result or a message of the symbolic
\* engine.
UnknownText == <<"?">>

\* The classes of the exceptions the parser, eval() and the engine raise.
Exceptions == {"SyntaxError", "TypeError", "NameError", "ValueError",
               "NotImplementedError"}

\* A variant of the except clause: "except SyntaxError".
ExceptSyntaxError(exc) == exc = "SyntaxError"

\* "except Exception" catches every one of them.
ExceptException(exc) == exc \in Exceptions

\* str(e)
Message(exc) == UnknownText

Ok(text) == [ok |-> TRUE, text |-> text, val |-> 0, exc |-> ""]
OkValue(n) == [ok |-> TRUE, text |-> <<>>, val |-> n, exc |-> ""]
Fail(exc) == [ok |-> FALSE, text |-> <<>>, val |-> 0, exc |-> exc]

Failures == {Fail(e) : e \in Exceptions}

\* The values eval() may give a text the model does not compute.
SampleValues == {1}

\* str(eval(str(expr_sym), {"__builtins__": None}, allowed_names)) for a
\* parsed expr_sym: an integer evaluates to itself, x is no allowed name.
NumericOutcomes(v) ==
    CASE v.k = "raise" -> {Fail(v.exc)}
      [] v.k = "poly" -> IF IsConst(v.c) THEN {Ok(IntStr(ConstVal(v.c)))}
                         ELSE {Fail("NameError")}
      [] OTHER -> Failures \cup {Ok(UnknownText)}

\* str() of what the symbolic engine computes from a parsed expression:
\* derivatives and antiderivatives of a polynomial exist, every other
\* computation may fail.
CalculusOutcomes(v) ==
    CASE v.k = "raise" -> {Fail(v.exc)}
      [] v.k = "poly" -> {Ok(UnknownText)}
      [] OTHER -> Failures \cup {Ok(UnknownText)}

EngineOutcomes(v) ==
    IF v.k = "raise" THEN {Fail(v.exc)} ELSE Failures \cup {Ok(UnknownText)}

\* The two sides of an equation, parsed left side first.
BothSides(l, r) ==
    IF l.k = "raise" THEN l
    ELSE IF l.k = "unknown" THEN Unknown
    ELSE IF r.k # "poly" THEN r
    ELSE Poly(PolyAdd(l.c, PolyNeg(r.c)))

\* float(eval(text.replace('^', '**'), {"__builtins__": None}, allowed_names))
FloatOutcomes(text) ==
    LET v == python_eval(CaretToPower(text))
    IN  CASE v.k = "raise" -> {Fail(v.exc)}
          [] v.k = "poly" -> {OkValue(ConstVal(v.c))}
          [] OTHER -> Failures \cup {OkValue(n) : n \in SampleValues}

\* str.split(sep) for a one-character sep.
RECURSIVE Split(_, _)
Split(text, sep) ==
    IF \A i \in 1..Len(text) : text[i] # sep THEN <<text>>
    ELSE LET j == SetMin({i \in 1..Len(text) : text[i] = sep})
         IN  <<SubSeq(text, 1, j - 1)>> \o Split(SubSeq(text, j + 1, Len(text)), sep)

FloatMemory(n) == [float |-> TRUE, val |-> n]
IntMemory(n) == [float |-> FALSE, val |-> n]

NoOp == [op |-> "init", key |-> <<>>, expr |-> <<>>, hist |-> <<>>,
         shift |-> FALSE, mem |-> IntMemory(0), ok |-> TRUE, raised |-> FALSE]

\* What a handler leaves in last: its name, its argument, the state it started
\* from, whether its try block completed, and whether an exception left it.
Ran(op, key, ok, raised) ==
    [op |-> op, key |-> key, expr |-> expression, hist |-> history,
     shift |-> shift_mode, mem |-> memory, ok |-> ok, raised |-> raised]

----------------------------------------------------------------------------
(* The state after __init__.                                               *)

\* No graph window yet: graph_expression creates the widgets.
NoGraph == [open |-> FALSE]

Init ==
    /\ expression = <<>>
    /\ expr_var = <<>>
    /\ history = <<>>
    /\ shift_mode = FALSE
    /\ memory = IntMemory(0)
    /\ last = NoOp
    /\ applied = <<>>
    /\ graph = NoGraph

----------------------------------------------------------------------------
(* The handlers.  Each is the whole method: its try block, its except      *)
(* clause and the _update_display() that ends it.  out is what the         *)
(* evaluator the handler calls returned or raised.                         *)

\* A variant of add_history that keeps the new entry only.
add_history_replacing(text) == history' = <<text>>

add_history(text) == history' = Append(history, text)

_update_display == expr_var' = expression'

\* The exception leaves the handler: nothing after the raising call runs.
Escapes(op, key) ==
    /\ last' = Ran(op, key, FALSE, TRUE)
    /\ UNCHANGED <<expression, expr_var, history, shift_mode, memory>>

\* A variant of toggle_shift that turns the shift mode on.
toggle_shift_on ==
    /\ shift_mode' = TRUE
    /\ last' = Ran("toggle_shift", <<>>, TRUE, FALSE)
    /\ UNCHANGED <<expression, expr_var, history, memory>>

toggle_shift ==
    /\ shift_mode' = ~shift_mode
    /\ last' = Ran("toggle_shift", <<>>, TRUE, FALSE)
    /\ UNCHANGED <<expression, expr_var, history, memory>>

\* click(key) for a key of the else branch.
ClickLiteral(key) ==
    /\ expression' = expression \o ClickText(key, shift_mode)
    /\ _update_display
    /\ last' = Ran("click", key, TRUE, FALSE)
    /\ UNCHANGED <<history, shift_mode, memory>>

\* A variant of click("C") that empties the history too.
ClickClearAll ==
    /\ expression' = <<>>
    /\ _update_display
    /\ history' = <<>>
    /\ last' = Ran("clear", <<"C">>, TRUE, FALSE)
    /\ UNCHANGED <<shift_mode, memory>>

\* click("C")
ClickClear ==
    /\ expression' = <<>>
    /\ _update_display
    /\ last' = Ran("clear", <<"C">>, TRUE, FALSE)
    /\ UNCHANGED <<history, shift_mode, memory>>

\* A variant of click("Del") that keeps the first character only.
ClickDelToFirst ==
    /\ expression' = IF expression = <<>> THEN <<>> ELSE <<Head(expression)>>
    /\ _update_display
    /\ last' = Ran("delete", <<"D","e","l">>, TRUE, FALSE)
    /\ UNCHANGED <<history, shift_mode, memory>>

\* click("Del"): expression[:-1]
ClickDel ==
    /\ expression' = SubSeq(expression, 1, Len(expression) - 1)
    /\ _update_display
    /\ last' = Ran("delete", <<"D","e","l">>, TRUE, FALSE)
    /\ UNCHANGED <<history, shift_mode, memory>>

\* What parse_expr and eval make of the buffer in click("=").
EvaluateOutcomes(text) == NumericOutcomes(parse_expr(CaretToPower(text)))

\* The entry click("=") adds: f"{expr} = {result}", expr being the buffer
\* after replace('^', '**').
EvaluateEntry(text, result) == CaretToPower(text) \o <<" = ">> \o result

\* click("=")
ClickEquals(out) ==
    /\ IF out.ok
       THEN /\ add_history(EvaluateEntry(expression, out.text))
            /\ expression' = out.text
            /\ _update_display
            /\ last' = Ran("evaluate", <<"=">>, TRUE, FALSE)
            /\ UNCHANGED <<shift_mode, memory>>
       ELSE IF ExceptException(out.exc)
       THEN /\ expression' = ErrorText
            /\ _update_display
            /\ last' = Ran("evaluate", <<"=">>, FALSE, FALSE)
            /\ UNCHANGED <<history, shift_mode, memory>>
       ELSE Escapes("evaluate", <<"=">>)

DifferentiateOutcomes(text) == CalculusOutcomes(parse_expr(text))

\* A variant of differentiate_expression whose except clause adds an entry.
differentiate_logging_errors(out) ==
    /\ IF out.ok
       THEN /\ add_history(<<"d/dx(">> \o expression \o <<") = ">> \o out.text)
            /\ expression' = out.text
            /\ _update_display
            /\ last' = Ran("differentiate", <<>>, TRUE, FALSE)
            /\ UNCHANGED <<shift_mode, memory>>
       ELSE /\ add_history(<<"d/dx(">> \o expression \o <<") = ">> \o ErrorText)
            /\ expression' = ErrorText
            /\ _update_display
            /\ last' = Ran("differentiate", <<>>, FALSE, FALSE)
            /\ UNCHANGED <<shift_mode, memory>>

differentiate_expression(out) ==
    /\ IF out.ok
       THEN /\ add_history(<<"d/dx(">> \o expression \o <<") = ">> \o out.text)
            /\ expression' = out.text
            /\ _update_display
            /\ last' = Ran("differentiate", <<>>, TRUE, FALSE)
            /\ UNCHANGED <<shift_mode, memory>>
       ELSE IF ExceptException(out.exc)
       THEN /\ expression' = ErrorText
            /\ _update_display
            /\ last' = Ran("differentiate", <<>>, FALSE, FALSE)
            /\ UNCHANGED <<history, shift_mode, memory>>
       ELSE Escapes("differentiate", <<>>)

IntegrateOutcomes(text) == CalculusOutcomes(parse_expr(text))

integrate_expression(out) ==
    /\ IF out.ok
       THEN /\ add_history(<<IntegralSign, "(">> \o expression \o <<") dx = ">> \o out.text)
            /\ expression' = out.text
            /\ _update_display
            /\ last' = Ran("integrate", <<>>, TRUE, FALSE)
            /\ UNCHANGED <<shift_mode, memory>>
       ELSE IF ExceptException(out.exc)
       THEN /\ expression' = ErrorText
            /\ _update_display
            /\ last' = Ran("integrate", <<>>, FALSE, FALSE)
            /\ UNCHANGED <<history, shift_mode, memory>>
       ELSE Escapes("integrate", <<>>)

\* The equation solve_equation builds: lhs, rhs = expression.split("=") when
\* the buffer holds a "=", the buffer against 0 otherwise.
SolveOutcomes(text) ==
    IF \E i \in 1..Len(text) : text[i] = "="
    THEN LET parts == Split(text, "=")
         IN  IF Len(parts) # 2 THEN {Fail("ValueError")}
             ELSE EngineOutcomes(BothSides(parse_expr(parts[1]), parse_expr(parts[2])))
    ELSE EngineOutcomes(parse_expr(text))

solve_equation(out) ==
    /\ IF out.ok
       THEN /\ add_history(<<"Solve(">> \o expression \o <<") = ">> \o out.text)
            /\ expression' = out.text
            /\ _update_display
            /\ last' = Ran("solve_equation", <<>>, TRUE, FALSE)
            /\ UNCHANGED <<shift_mode, memory>>
       ELSE IF ExceptException(out.exc)
       THEN /\ expression' = ErrorText
            /\ _update_display
            /\ last' = Ran("solve_equation", <<>>, FALSE, FALSE)
            /\ UNCHANGED <<history, shift_mode, memory>>
       ELSE Escapes("solve_equation", <<>>)

----------------------------------------------------------------------------
(* solve_ode's preparation of its input.                                   *)

WordChars == Letters \cup Digits

\* str.strip() of blanks.
RECURSIVE Strip(_)
Strip(text) ==
    IF text = <<>> THEN text
    ELSE IF Head(text) = " " THEN Strip(Tail(text))
    ELSE IF text[Len(text)] = " " THEN Strip(SubSeq(text, 1, Len(text) - 1))
    ELSE text

\* The first position from i on that holds no blank (\s*).
RECURSIVE SkipBlanks(_, _)
SkipBlanks(text, i) ==
    IF i <= Len(text) /\ text[i] = " " THEN SkipBlanks(text, i + 1) ELSE i

Holds(text, i, chars) == i <= Len(text) /\ text[i] \in chars

\* Where a match of d\s*y\s*/\s*d\s*x (IGNORECASE) that starts at i ends; 0
\* when none starts there.
DyDxEnd(text, i) ==
    LET a == SkipBlanks(text, i + 1)
        b == SkipBlanks(text, a + 1)
        c == SkipBlanks(text, b + 1)
        d == SkipBlanks(text, c + 1)
    IN  IF /\ Holds(text, i, {"d", "D"})
           /\ Holds(text, a, {"y", "Y"})
           /\ Holds(text, b, {"/"})
           /\ Holds(text, c, {"d", "D"})
           /\ Holds(text, d, {"x", "X"})
        THEN d ELSE 0

DerivativeText ==
    <<"D","e","r","i","v","a","t","i","v","e","(","y","(","x",")",","," ","x",")">>

\* re.sub(r"d\s*y\s*/\s*d\s*x", "Derivative(y(x), x)", text, flags=re.IGNORECASE)
RECURSIVE SubDyDx(_, _)
SubDyDx(text, i) ==
    IF i > Len(text) THEN <<>>
    ELSE IF DyDxEnd(text, i) > 0
         THEN DerivativeText \o SubDyDx(text, DyDxEnd(text, i) + 1)
         ELSE <<text[i]>> \o SubDyDx(text, i + 1)

\* re.sub(r"\by\b(?!\()", "y(x)", text)
RECURSIVE SubBareY(_, _)
SubBareY(text, i) ==
    IF i > Len(text) THEN <<>>
    ELSE IF /\ text[i] = "y"
            /\ (i = 1 \/ text[i - 1] \notin WordChars)
            /\ (i = Len(text) \/ text[i + 1] \notin WordChars \cup {"("})
         THEN <<"y","(","x",")">> \o SubBareY(text, i + 1)
         ELSE <<text[i]>> \o SubBareY(text, i + 1)

\* Where re.match(r"(.+?)=(.+)", text) puts its "=": the first "=" with a
\* character before it and one after it.
OdeSplits(text) == {j \in 2..(Len(text) - 1) : text[j] = "="}

ode_input(text) == SubDyDx(Strip(text), 1)

ode_lhs(text) ==
    Strip(SubSeq(ode_input(text), 1, SetMin(OdeSplits(ode_input(text))) - 1))

ode_rhs(text) ==
    LET t == ode_input(text)
    IN  SubBareY(Strip(SubSeq(t, SetMin(OdeSplits(t)) + 1, Len(t))), 1)

\* What parse_expr and dsolve make of the buffer in solve_ode.  x is the
\* same symbol in local_dict as without it.
OdeOutcomes(text) ==
    IF OdeSplits(ode_input(text)) # {}
    THEN EngineOutcomes(BothSides(parse_expr(ode_lhs(text)), parse_expr(ode_rhs(text))))
    ELSE EngineOutcomes(parse_expr(ode_input(text)))

solve_ode(out) ==
    /\ IF out.ok
       THEN /\ add_history(<<"Solve ODE(">> \o expression \o <<") = ">> \o out.text)
            /\ expression' = UnknownText
            /\ _update_display
            /\ last' = Ran("solve_ode", <<>>, TRUE, FALSE)
            /\ UNCHANGED <<shift_mode, memory>>
       ELSE IF ExceptException(out.exc)
       THEN /\ expression' = ErrorText \o <<":", " ">> \o Message(out.exc)
            /\ _update_display
            /\ last' = Ran("solve_ode", <<>>, FALSE, FALSE)
            /\ UNCHANGED <<history, shift_mode, memory>>
       ELSE Escapes("solve_ode", <<>>)

----------------------------------------------------------------------------
(* The other engine handlers.                                              *)

FourierOutcomes(text) == EngineOutcomes(parse_expr(text))

fourier_transform(out) ==
    /\ IF out.ok
       THEN /\ add_history(<<"Fourier(">> \o expression \o <<") = ">> \o out.text)
            /\ expression' = out.text
            /\ _update_display
            /\ last' = Ran("fourier_transform", <<>>, TRUE, FALSE)
            /\ UNCHANGED <<shift_mode, memory>>
       ELSE IF ExceptException(out.exc)
       THEN /\ expression' = ErrorText
            /\ _update_display
            /\ last' = Ran("fourier_transform", <<>>, FALSE, FALSE)
            /\ UNCHANGED <<history, shift_mode, memory>>
       ELSE Escapes("fourier_transform", <<>>)

\* sp.latex(parse_expr(...)) in latex_render.
LatexOutcomes(text) ==
    LET v == parse_expr(text)
    IN  CASE v.k = "raise" -> {Fail(v.exc)}
          [] v.k = "poly" -> {Ok(UnknownText)}
          [] OTHER -> Failures \cup {Ok(UnknownText)}

\* latex_render: the except clause sets latex_str, the entry is added after it.
latex_render(out) ==
    /\ IF out.ok \/ ExceptException(out.exc)
       THEN /\ add_history(<<"LaTeX Render: ">>
                           \o (IF out.ok THEN out.text ELSE ErrorText))
            /\ last' = Ran("latex_render", <<>>, out.ok, FALSE)
            /\ UNCHANGED <<expression, expr_var, shift_mode, memory>>
       ELSE Escapes("latex_render", <<>>)

NotApplicable == <<"N", "/", "A">>

\* str(det) in matrix_operations: a polynomial has no det attribute.
MatrixOutcomes(text) ==
    LET v == parse_expr(text)
    IN  CASE v.k = "raise" -> {Fail(v.exc)}
          [] v.k = "poly" -> {Ok(NotApplicable)}
          [] OTHER -> Failures \cup {Ok(NotApplicable), Ok(UnknownText)}

matrix_operations(out) ==
    /\ IF out.ok
       THEN /\ add_history(<<"Matrix Det: ">> \o out.text
                           \o <<"\nMatrix Inv: ">> \o out.text)
            /\ expression' = <<"D","e","t",":"," ">> \o out.text
            /\ _update_display
            /\ last' = Ran("matrix_operations", <<>>, TRUE, FALSE)
            /\ UNCHANGED <<shift_mode, memory>>
       ELSE IF ExceptException(out.exc)
       THEN /\ expression' = ErrorText
            /\ _update_display
            /\ last' = Ran("matrix_operations", <<>>, FALSE, FALSE)
            /\ UNCHANGED <<history, shift_mode, memory>>
       ELSE Escapes("matrix_operations", <<>>)

----------------------------------------------------------------------------
(* The memory register.                                                    *)

\* A variant of MemoryStr that writes a float as an integer.
MemoryStrTruncated(m) == IntStr(m.val)

\* str(self.memory)
MemoryStr(m) == IF m.float THEN FloatStr(m.val) ELSE IntStr(m.val)

memory_clear ==
    /\ memory' = IntMemory(0)
    /\ add_history(<<"Memory Cleared">>)
    /\ last' = Ran("memory_clear", <<>>, TRUE, FALSE)
    /\ UNCHANGED <<expression, expr_var, shift_mode>>

memory_recall ==
    /\ expression' = expression \o MemoryStr(memory)
    /\ _update_display
    /\ add_history(<<"Memory Recalled: ">> \o MemoryStr(memory))
    /\ last' = Ran("memory_recall", <<>>, TRUE, FALSE)
    /\ UNCHANGED <<shift_mode, memory>>

\* A variant of memory_add whose except clause resets the register.
memory_add_resetting(out) ==
    /\ IF out.ok
       THEN /\ memory' = FloatMemory(memory.val + out.val)
            /\ add_history(<<"Memory Added: ">> \o FloatStr(out.val)
                           \o <<" -> ">> \o MemoryStr(memory'))
            /\ last' = Ran("memory_add", <<>>, TRUE, FALSE)
            /\ UNCHANGED <<expression, expr_var, shift_mode>>
       ELSE /\ memory' = IntMemory(0)
            /\ add_history(<<"Memory Add Error">>)
            /\ last' = Ran("memory_add", <<>>, FALSE, FALSE)
            /\ UNCHANGED <<expression, expr_var, shift_mode>>

memory_add(out) ==
    /\ IF out.ok
       THEN /\ memory' = FloatMemory(memory.val + out.val)
            /\ add_history(<<"Memory Added: ">> \o FloatStr(out.val)
                           \o <<" -> ">> \o MemoryStr(memory'))
            /\ last' = Ran("memory_add", <<>>, TRUE, FALSE)
            /\ UNCHANGED <<expression, expr_var, shift_mode>>
       ELSE IF ExceptException(out.exc)
       THEN /\ add_history(<<"Memory Add Error">>)
            /\ last' = Ran("memory_add", <<>>, FALSE, FALSE)
            /\ UNCHANGED <<expression, expr_var, shift_mode, memory>>
       ELSE Escapes("memory_add", <<>>)

memory_subtract(out) ==
    /\ IF out.ok
       THEN /\ memory' = FloatMemory(memory.val - out.val)
            /\ add_history(<<"Memory Subtracted: ">> \o FloatStr(out.val)
                           \o <<" -> ">> \o MemoryStr(memory'))
            /\ last' = Ran("memory_subtract", <<>>, TRUE, FALSE)
            /\ UNCHANGED <<expression, expr_var, shift_mode>>
       ELSE IF ExceptException(out.exc)
       THEN /\ add_history(<<"Memory Subtract Error">>)
            /\ last' = Ran("memory_subtract", <<>>, FALSE, FALSE)
            /\ UNCHANGED <<expression, expr_var, shift_mode, memory>>
       ELSE Escapes("memory_subtract", <<>>)

----------------------------------------------------------------------------
(* click("toDeg") and click("toRad").                                      *)

\* Characters no text mp.mpf() accepts holds.
NotInNumbers == {"x", "*", "^", "=", "(", ")"}

\* str(converted) for value = mp.mpf(text) and converted = value * 180 / mp.pi
\* or value * mp.pi / 180: a text of digits is a number, the empty text and a
\* text with a character of NotInNumbers is none, and the arithmetic of a
\* parsed number raises nothing.
MpfOutcomes(text) ==
    IF IsDigitText(text) THEN {Ok(UnknownText)}
    ELSE IF text = <<>> \/ \E i \in 1..Len(text) : text[i] \in NotInNumbers
         THEN {Fail("ValueError")}
    ELSE Failures \cup {Ok(UnknownText)}

\* A variant of click("toDeg") that leaves the shift mode off.
ClickToDegUnshifting(out) ==
    /\ IF out.ok
       THEN /\ add_history(<<"toDeg(">> \o expression \o <<") = ">> \o out.text)
            /\ expression' = out.text
       ELSE /\ expression' = ErrorText
            /\ UNCHANGED history
    /\ _update_display
    /\ shift_mode' = FALSE
    /\ last' = Ran("toDeg", <<"t","o","D","e","g">>, out.ok, FALSE)
    /\ UNCHANGED memory

\* click("toDeg")
ClickToDeg(out) ==
    /\ IF out.ok
       THEN /\ add_history(<<"toDeg(">> \o expression \o <<") = ">> \o out.text)
            /\ expression' = out.text
            /\ _update_display
            /\ last' = Ran("toDeg", <<"t","o","D","e","g">>, TRUE, FALSE)
            /\ UNCHANGED <<shift_mode, memory>>
       ELSE IF ExceptException(out.exc)
       THEN /\ expression' = ErrorText
            /\ _update_display
            /\ last' = Ran("toDeg", <<"t","o","D","e","g">>, FALSE, FALSE)
            /\ UNCHANGED <<history, shift_mode, memory>>
       ELSE Escapes("toDeg", <<"t","o","D","e","g">>)

\* A variant of click("toRad") whose except clause adds an entry.
ClickToRadLoggingErrors(out) ==
    /\ IF out.ok
       THEN /\ add_history(<<"toRad(">> \o expression \o <<") = ">> \o out.text)
            /\ expression' = out.text
       ELSE /\ add_history(<<"toRad(">> \o expression \o <<") = ">> \o ErrorText)
            /\ expression' = ErrorText
    /\ _update_display
    /\ last' = Ran("toRad", <<"t","o","R","a","d">>, out.ok, FALSE)
    /\ UNCHANGED <<shift_mode, memory>>

\* click("toRad")
ClickToRad(out) ==
    /\ IF out.ok
       THEN /\ add_history(<<"toRad(">> \o expression \o <<") = ">> \o out.text)
            /\ expression' = out.text
            /\ _update_display
            /\ last' = Ran("toRad", <<"t","o","R","a","d">>, TRUE, FALSE)
            /\ UNCHANGED <<shift_mode, memory>>
       ELSE IF ExceptException(out.exc)
       THEN /\ expression' = ErrorText
            /\ _update_display
            /\ last' = Ran("toRad", <<"t","o","R","a","d">>, FALSE, FALSE)
            /\ UNCHANGED <<history, shift_mode, memory>>
       ELSE Escapes("toRad", <<"t","o","R","a","d">>)

----------------------------------------------------------------------------
(* The graph window.  graph holds the texts of its three entries, the      *)
(* lines of func_list after its heading, and the figure plot_graph drew    *)
(* last (none: the empty sequence).                                        *)

Unchanged_calculator == UNCHANGED <<expression, expr_var, history, shift_mode, memory>>

\* click("Graph"): graph_expression makes a new window with new widgets.
graph_expression ==
    /\ graph' = [open |-> TRUE,
                 x_min |-> <<"-","1","0">>,
                 x_max |-> <<"1","0">>,
                 var |-> <<"x">>,
                 funcs |-> <<>>,
                 plot |-> <<>>]
    /\ last' = Ran("graph", <<"G","r","a","p","h">>, TRUE, FALSE)
    /\ Unchanged_calculator

\* The user types text into one of the entries x_min, x_max, var of the
\* window.
graph_entry(field, text) ==
    /\ graph.open
    /\ graph' = [graph EXCEPT ![field] = text]
    /\ last' = Ran("graph_entry", text, TRUE, FALSE)
    /\ Unchanged_calculator

add_function_to_plot ==
    /\ graph.open
    /\ IF Strip(expression) # <<>>
       THEN /\ graph' = [graph EXCEPT !.funcs = Append(@, expression)]
            /\ add_history(<<"Added function for plotting: ">> \o expression)
            /\ last' = Ran("add_function_to_plot", <<>>, TRUE, FALSE)
            /\ UNCHANGED <<expression, expr_var, shift_mode, memory>>
       ELSE /\ last' = Ran("add_function_to_plot", <<>>, FALSE, FALSE)
            /\ UNCHANGED graph
            /\ Unchanged_calculator

----------------------------------------------------------------------------
(* plot_graph.                                                             *)

\* np.linspace(x_min, x_max, 400): the number of points of the domain.
Samples == 400

\* float(text) of Python for the text of an entry: a signed integer is a
\* number; the empty text and a text with a character of NotInNumbers is
\* none.
IsSignedInt(text) ==
    \/ IsDigitText(text)
    \/ Len(text) > 1 /\ Head(text) \in {"-", "+"} /\ IsDigitText(Tail(text))

SignedIntVal(text) ==
    IF Head(text) = "-" THEN -NumVal(Tail(text))
    ELSE IF Head(text) = "+" THEN NumVal(Tail(text))
    ELSE NumVal(text)

float_outcomes(text) ==
    IF IsSignedInt(text) THEN {[ok |-> TRUE, val |-> SignedIntVal(text)]}
    ELSE IF text = <<>> \/ \E i \in 1..Len(text) : text[i] \in NotInNumbers
         THEN {[ok |-> FALSE, val |-> 0]}
    ELSE {[ok |-> FALSE, val |-> 0]} \cup {[ok |-> TRUE, val |-> n] : n \in SampleValues}

\* x_min, x_max after the try block: one float() that raises resets both.
DomainOutcomes(min_text, max_text) ==
    { IF a.ok /\ b.ok THEN <<a.val, b.val>> ELSE <<-10, 10>> :
        a \in float_outcomes(min_text), b \in float_outcomes(max_text) }

\* var_entry.get().strip() or "x"
plot_var(text) == IF Strip(text) = <<>> THEN <<"x">> ELSE Strip(text)

\* The lines of func_list that hold more than blanks, stripped.
RECURSIVE StrippedLines(_)
StrippedLines(lines) ==
    IF lines = <<>> THEN <<>>
    ELSE (IF Strip(Head(lines)) # <<>> THEN <<Strip(Head(lines))>> ELSE <<>>)
         \o StrippedLines(Tail(lines))

\* A variant of all_funcs that puts the buffer last.
all_funcs_buffer_last(buffer, lines) ==
    StrippedLines(lines) \o (IF Strip(buffer) # <<>> THEN <<buffer>> ELSE <<>>)

\* all_funcs: the buffer when it holds more than blanks, then the lines.
all_funcs(buffer, lines) ==
    (IF Strip(buffer) # <<>> THEN <<buffer>> ELSE <<>>) \o StrippedLines(lines)

\* What the try block of the loop does with one function: the stage it
\* reaches, and for f(x_vals) that returns an array the size of the array.
ParseError == [stage |-> "parse", size |-> 0]
SampleError == [stage |-> "sample", size |-> 0]
Scalar == [stage |-> "scalar", size |-> 0]
Array(n) == [stage |-> "array", size |-> n]

\* The sizes of the arrays an expression the model does not compute may give.
ArraySizes == {1, 2, Samples}

AnyOutcome == {ParseError, SampleError, Scalar} \cup {Array(n) : n \in ArraySizes}

\* parse_expr, sp.lambdify(symbol, expr_sym, "numpy") and f(x_vals) for one
\* function and a one-letter var: an expression without x gives a scalar,
\* one with x an array over the domain when var is x and a NameError for x
\* when it is not.
PlotOutcomes(text, var) ==
    LET v == parse_expr(CaretToPower(text))
    IN  IF v.k = "raise" THEN {ParseError}
        ELSE IF v.k = "poly" /\ Len(var) = 1 /\ var[1] \in Letters
             THEN IF IsConst(v.c) THEN {Scalar}
                  ELSE IF var = <<"x">> THEN {Array(Samples)}
                  ELSE {SampleError}
        ELSE AnyOutcome

\* y_vals as ax.plot receives it: np.full_like for a scalar, the array when
\* its shape is the domain's, np.full of float(y_vals) otherwise; float() of
\* an array of another size than 1 raises.
Plotted(out) ==
    \/ out.stage = "scalar"
    \/ out.stage = "array" /\ out.size \in {1, Samples}

\* A variant of SeriesLength without np.full_like and np.full.
SeriesLengthAsReturned(out) == IF out.stage = "array" THEN out.size ELSE 1

SeriesLength(out) ==
    IF out.stage = "array" /\ out.size = Samples THEN out.size ELSE Samples

\* The series ax.plot draws and the entries the except clause adds, function
\* by function.
RECURSIVE PlotSeries(_, _)
PlotSeries(funcs, outs) ==
    IF funcs = <<>> THEN <<>>
    ELSE (IF Plotted(Head(outs))
          THEN <<[label |-> Head(funcs),
                  length |-> SeriesLength(Head(outs)),
                  broadcast |-> ~(Head(outs).stage = "array"
                                  /\ Head(outs).size = Samples)]>>
          ELSE <<>>)
         \o PlotSeries(Tail(funcs), Tail(outs))

RECURSIVE PlotErrors(_, _)
PlotErrors(funcs, outs) ==
    IF funcs = <<>> THEN <<>>
    ELSE (IF Plotted(Head(outs)) THEN <<>>
          ELSE << <<"Error plotting ">> \o Head(funcs) \o <<": ">>
                  \o Message("Exception") >>)
         \o PlotErrors(Tail(funcs), Tail(outs))

\* The outcomes of the functions of a request, one for each.
RequestOutcomes(funcs, var) ==
    { outs \in [1..Len(funcs) -> AnyOutcome] :
        \A i \in 1..Len(funcs) : outs[i] \in PlotOutcomes(funcs[i], var) }

plot_graph(domain, outs) ==
    LET funcs == all_funcs(expression, graph.funcs)
    IN  /\ graph.open
        /\ IF funcs = <<>>
           THEN /\ last' = Ran("plot_graph", <<>>, FALSE, FALSE)
                /\ UNCHANGED graph
                /\ Unchanged_calculator
           ELSE /\ graph' = [graph EXCEPT !.plot =
                      <<[x_min |-> domain[1], x_max |-> domain[2],
                         points |-> Samples,
                         var |-> plot_var(graph.var),
                         funcs |-> funcs,
                         outcomes |-> outs,
                         series |-> PlotSeries(funcs, outs)]>>]
                /\ history' = history \o PlotErrors(funcs, outs)
                /\ last' = Ran("plot_graph", <<>>, TRUE, FALSE)
                /\ UNCHANGED <<expression, expr_var, shift_mode, memory>>

----------------------------------------------------------------------------
(* The calculator: every handler, on the texts and keys below.             *)

\* The texts the user leaves in the entry widget.
EntryTexts ==
    { <<"2","+","2">>, <<"x","^","2">>, <<"x","^","2","-","4","=","0">>,
      <<"2","^","3">>, <<"x","-","x">> }

\* The buttons of the else branch of click() the user presses.
PressedKeys == { <<"7">> }

\* The user types text into the entry widget, and the KeyRelease that ends
\* the typing runs update_expression_from_entry.
update_expression_from_entry(text) ==
    /\ expr_var' = text
    /\ expression' = expr_var'
    /\ last' = Ran("update_expression_from_entry", text, TRUE, FALSE)
    /\ UNCHANGED <<history, shift_mode, memory>>

\* A session ends when its history is full.
Open == Len(history) < MaxHist /\ UNCHANGED <<applied, graph>>

Next ==
    \/ Open /\ \E text \in EntryTexts : update_expression_from_entry(text)
    \/ Open /\ toggle_shift
    \/ \E key \in PressedKeys :
           /\ Open
           /\ Len(expression) < MaxLen
           /\ ClickLiteral(key)
    \/ Open /\ ClickClear
    \/ Open /\ ClickDel
    \/ /\ Open
       /\ \E out \in EvaluateOutcomes(expression) : ClickEquals(out)
    \/ /\ Open
       /\ \E out \in DifferentiateOutcomes(expression) : differentiate_expression(out)
    \/ /\ Open
       /\ \E out \in IntegrateOutcomes(expression) : integrate_expression(out)
    \/ /\ Open
       /\ \E out \in SolveOutcomes(expression) : solve_equation(out)
    \/ /\ Open
       /\ \E out \in OdeOutcomes(expression) : solve_ode(out)
    \/ /\ Open
       /\ \E out \in FourierOutcomes(expression) : fourier_transform(out)
    \/ /\ Open
       /\ \E out \in LatexOutcomes(expression) : latex_render(out)
    \/ /\ Open
       /\ \E out \in MatrixOutcomes(expression) : matrix_operations(out)
    \/ /\ Open
       /\ memory_clear
    \/ /\ Open
       /\ Len(expression) < MaxLen
       /\ memory_recall
    \/ /\ Open
       /\ \E out \in FloatOutcomes(expression) :
             /\ out.ok => Abs(memory.val + out.val) <= MaxMem
             /\ memory_add(out)
    \/ /\ Open
       /\ \E out \in FloatOutcomes(expression) :
             /\ out.ok => Abs(memory.val - out.val) <= MaxMem
             /\ memory_subtract(out)

Spec == Init /\ [][Next]_vars

----------------------------------------------------------------------------
(* The memory register alone: the four memory handlers on typed buffers.   *)

MemoryTexts == { <<"5">>, <<"2">>, <<"x","-","x">>, <<"2","^","3">>, <<"2","x">> }

\* A session ends after MaxCalls calls; each call adds one entry.
InSession == Len(history) < MaxCalls /\ UNCHANGED <<applied, graph>>

MemoryNext ==
    \/ \E text \in MemoryTexts : InSession /\ update_expression_from_entry(text)
    \/ InSession /\ memory_clear
    \/ InSession /\ memory_recall
    \/ \E out \in FloatOutcomes(expression) :
           /\ InSession
           /\ out.ok => Abs(memory.val + out.val) <= MaxMem
           /\ memory_add(out)
    \/ \E out \in FloatOutcomes(expression) :
           /\ InSession
           /\ out.ok => Abs(memory.val - out.val) <= MaxMem
           /\ memory_subtract(out)

SpecMemory == Init /\ [][MemoryNext]_vars

----------------------------------------------------------------------------
(* The round trip clear(), add() on "5", subtract() on "2", recall(), from *)
(* the states a session can be in: a fresh calculator, or one whose        *)
(* register holds what one add() left there, with any text in the buffer   *)
(* and either shift mode.  applied holds the steps taken.                  *)

StartTexts == MemoryTexts \cup {<<>>}

\* The history of a session that typed str(n) and called add() once.
AddedOnce(n) ==
    << <<"Memory Added: ">> \o FloatStr(n) \o <<" -> ">> \o FloatStr(n) >>

RoundTripInit ==
    /\ \E n \in (-MaxStart)..MaxStart :
          \/ memory = IntMemory(0) /\ history = <<>>
          \/ memory = FloatMemory(n) /\ history = AddedOnce(n)
    /\ expression \in StartTexts
    /\ expr_var = expression
    /\ shift_mode \in BOOLEAN
    /\ last = NoOp
    /\ applied = <<>>
    /\ graph = NoGraph

Step(before, name) ==
    /\ applied = before
    /\ applied' = Append(applied, name)
    /\ UNCHANGED graph

RoundTripNext ==
    \/ Step(<<>>, "clear") /\ memory_clear
    \/ /\ Step(<<"clear">>, "type 5")
       /\ update_expression_from_entry(<<"5">>)
    \/ /\ Step(<<"clear", "type 5">>, "add")
       /\ \E out \in FloatOutcomes(expression) : memory_add(out)
    \/ /\ Step(<<"clear", "type 5", "add">>, "type 2")
       /\ update_expression_from_entry(<<"2">>)
    \/ /\ Step(<<"clear", "type 5", "add", "type 2">>, "subtract")
       /\ \E out \in FloatOutcomes(expression) : memory_subtract(out)
    \* The user may put any text in the buffer before recalling.
    \/ /\ applied = <<"clear", "type 5", "add", "type 2", "subtract">>
       /\ \E text \in StartTexts : update_expression_from_entry(text)
       /\ UNCHANGED <<applied, graph>>
    \/ /\ Step(<<"clear", "type 5", "add", "type 2", "subtract">>, "recall")
       /\ memory_recall

SpecRoundTrip == RoundTripInit /\ [][RoundTripNext]_vars

----------------------------------------------------------------------------
(* The log specification: every handler of the program, up to the next     *)
(* history entry, from a calculator that has made MaxPrior calls of the    *)
(* memory handlers: calls of memory_clear, the last of them either         *)
(* memory_clear or memory_add on the typed buffer str(MaxStart).           *)

Cleared(n) == [i \in 1..n |-> <<"Memory Cleared">>]

\* last is the call that made the last of those entries.
LogInit ==
    /\ \/ /\ expression = <<>>
          /\ history = Cleared(MaxPrior)
          /\ memory = IntMemory(0)
          /\ last = [NoOp EXCEPT !.op = "memory_clear",
                                !.hist = Cleared(MaxPrior - 1)]
       \/ /\ expression = IntStr(MaxStart)
          /\ history = Cleared(MaxPrior - 1) \o AddedOnce(MaxStart)
          /\ memory = FloatMemory(MaxStart)
          /\ last = [NoOp EXCEPT !.op = "memory_add",
                                !.expr = IntStr(MaxStart),
                                !.hist = Cleared(MaxPrior - 1)]
    /\ expr_var = expression
    /\ shift_mode = FALSE
    /\ applied = <<>>
    /\ graph = NoGraph

Logging == Len(history) <= MaxPrior /\ UNCHANGED applied

LogOpen == Logging /\ UNCHANGED graph

\* The texts the user leaves in the entry widget.
LogTexts == { <<"2","+","2">>, <<"x","^","2">>, <<" ">> }

LogNext ==
    \/ LogOpen /\ \E text \in LogTexts : update_expression_from_entry(text)
    \/ LogOpen /\ toggle_shift
    \/ \E key \in PressedKeys :
           /\ LogOpen
           /\ Len(expression) < MaxLen
           /\ ClickLiteral(key)
    \/ LogOpen /\ ClickClear
    \/ LogOpen /\ ClickDel
    \/ LogOpen /\ \E out \in EvaluateOutcomes(expression) : ClickEquals(out)
    \/ LogOpen /\ \E out \in MpfOutcomes(expression) : ClickToDeg(out)
    \/ LogOpen /\ \E out \in MpfOutcomes(expression) : ClickToRad(out)
    \/ LogOpen /\ \E out \in DifferentiateOutcomes(expression) : differentiate_expression(out)
    \/ LogOpen /\ \E out \in IntegrateOutcomes(expression) : integrate_expression(out)
    \/ LogOpen /\ \E out \in SolveOutcomes(expression) : solve_equation(out)
    \/ LogOpen /\ \E out \in OdeOutcomes(expression) : solve_ode(out)
    \/ LogOpen /\ \E out \in FourierOutcomes(expression) : fourier_transform(out)
    \/ LogOpen /\ \E out \in LatexOutcomes(expression) : latex_render(out)
    \/ LogOpen /\ \E out \in MatrixOutcomes(expression) : matrix_operations(out)
    \/ LogOpen /\ memory_clear
    \/ LogOpen /\ Len(expression) < MaxLen /\ memory_recall
    \/ /\ LogOpen
       /\ \E out \in FloatOutcomes(expression) :
             /\ out.ok => Abs(memory.val + out.val) <= MaxMem
             /\ memory_add(out)
    \/ /\ LogOpen
       /\ \E out \in FloatOutcomes(expression) :
             /\ out.ok => Abs(memory.val - out.val) <= MaxMem
             /\ memory_subtract(out)
    \/ Logging /\ graph_expression
    \/ Logging /\ add_function_to_plot
    \/ /\ Logging
       /\ graph.open
       /\ \E domain \in DomainOutcomes(graph.x_min, graph.x_max) :
             \E outs \in RequestOutcomes(all_funcs(expression, graph.funcs),
                                         plot_var(graph.var)) :
                 plot_graph(domain, outs)

SpecLog == LogInit /\ [][LogNext]_vars

----------------------------------------------------------------------------
(* The plot specification: the graph window, its entries, its function     *)
(* list and plot_graph, on the texts below.                                *)

\* A constant, the variable x, a text parse_expr rejects, a text the model
\* does not compute, a blank.
PlotTexts == { <<"5">>, <<"x">>, <<"2","+">>, <<"1","/","x">>, <<" ">> }

\* What the user types over a bound of the domain, and over the variable.
DomainTexts == { <<"5">>, <<"x">> }
VarTexts == { <<"t">>, <<" ">> }

\* A session ends with the first figure drawn.
Plotting == (graph.open => graph.plot = <<>>) /\ UNCHANGED applied

PlotNext ==
    \/ /\ Plotting
       /\ UNCHANGED graph
       /\ \E text \in PlotTexts : update_expression_from_entry(text)
    \/ Plotting /\ graph_expression
    \/ /\ Plotting
       /\ \E field \in {"x_min", "x_max"} :
             \E text \in DomainTexts : graph_entry(field, text)
    \/ Plotting /\ \E text \in VarTexts : graph_entry("var", text)
    \/ Plotting /\ Len(history) < MaxFuncs /\ add_function_to_plot
    \/ /\ Plotting
       /\ graph.open
       /\ \E domain \in DomainOutcomes(graph.x_min, graph.x_max) :
             \E outs \in RequestOutcomes(all_funcs(expression, graph.funcs),
                                         plot_var(graph.var)) :
                 plot_graph(domain, outs)

SpecPlot == Init /\ [][PlotNext]_vars

----------------------------------------------------------------------------
(* The ode specification: solve_ode on every buffer of x, y and = up to    *)
(* MaxOde characters and on two buffers with dy/dx.  applied holds what    *)
(* re.match found in the input of the last call, then the texts that call  *)
(* prepared for parse_expr.                                                *)

OdeChars == {"x", "y", "="}

OdeTexts ==
    UNION { [1..n -> OdeChars] : n \in 0..MaxOde }
    \cup { <<"d","y","/","d","x","=","y">>, <<"d","y","/","d","x","=">> }

\* match, match.group(1) and match.group(2) for the buffer text.
ode_match(text) ==
    LET t == ode_input(text)
        found == OdeSplits(t) # {}
        j == SetMin(OdeSplits(t))
    IN  [input |-> t,
         found |-> found,
         group1 |-> IF found THEN SubSeq(t, 1, j - 1) ELSE <<>>,
         group2 |-> IF found THEN SubSeq(t, j + 1, Len(t)) ELSE <<>>]

\* The texts solve_ode hands to parse_expr, as it prepared them: the two
\* sides of a matched equation (only the right one through the bare-y
\* substitution), or the whole input when nothing matched.
ode_parsed(text) ==
    IF OdeSplits(ode_input(text)) # {}
    THEN <<ode_lhs(text), ode_rhs(text)>>
    ELSE <<ode_input(text)>>

OdeNext ==
    \/ /\ Len(history) < MaxHist
       /\ \E text \in OdeTexts : update_expression_from_entry(text)
       /\ UNCHANGED <<applied, graph>>
    \/ /\ Len(history) < MaxHist
       /\ \E out \in OdeOutcomes(expression) : solve_ode(out)
       /\ applied' = <<ode_match(expression), ode_parsed(expression)>>
       /\ UNCHANGED graph

SpecOde == Init /\ [][OdeNext]_vars

----------------------------------------------------------------------------
(* The key specification: the entry widget has the focus; the user presses *)
(* and releases keys and clicks a button, in any order.  A key that goes   *)
(* down is handled by the entry (a character key inserts its character at  *)
(* the end of the text, which is the text of expr_var) and then by         *)
(* handle_key, bound to <Key> for every widget; a key that goes up runs    *)
(* update_expression_from_entry, bound to <KeyRelease> of the entry.       *)
(* applied holds the keys that are down.                                   *)

CharKeys == {"2", "+"}

ShortcutKeys == {"Return", "BackSpace", "Escape"}

\* handle_key(event) for event.keysym; out is what the evaluator of
\* click("=") returns or raises.  The else branch returns without a call.
handle_key(keysym, out) ==
    IF keysym = "Return" THEN ClickEquals(out)
    ELSE IF keysym = "BackSpace" THEN ClickDel
    ELSE IF keysym = "Escape" THEN ClickClear
    ELSE /\ last' = Ran("handle_key", <<keysym>>, TRUE, FALSE)
         /\ UNCHANGED <<expression, history, shift_mode, memory>>

\* A key goes down in the entry.  The entry inserts a character key into
\* its text; what it does with BackSpace is overwritten by the
\* _update_display() of click("Del"), and it does nothing with Return and
\* Escape.  handle_key runs after the entry has handled the key.
KeyPress(keysym, out) ==
    /\ keysym \in CharKeys => expr_var' = expr_var \o <<keysym>>
    /\ handle_key(keysym, out)

KeysNext ==
    \/ \E keysym \in CharKeys \cup ShortcutKeys :
           /\ Len(history) < MaxHist
           /\ Len(applied) < MaxHeld
           /\ \A i \in 1..Len(applied) : applied[i] # keysym
           /\ keysym \in CharKeys => Len(expr_var) < MaxTyped
           /\ \E out \in EvaluateOutcomes(expression) : KeyPress(keysym, out)
           /\ applied' = Append(applied, keysym)
           /\ UNCHANGED graph
    \/ \E i \in 1..Len(applied) :
           /\ Len(history) < MaxHist
           /\ update_expression_from_entry(expr_var)
           /\ applied' = SubSeq(applied, 1, i - 1) \o SubSeq(applied, i + 1, Len(applied))
           /\ UNCHANGED graph
    \/ \E key \in PressedKeys :
           /\ Len(history) < MaxHist
           /\ Len(expression) < MaxTyped
           /\ ClickLiteral(key)
           /\ UNCHANGED <<applied, graph>>

SpecKeys == Init /\ [][KeysNext]_vars

----------------------------------------------------------------------------
(* The input specification: literal and function tokens through click(),   *)
(* with shift toggles anywhere between them.                               *)

InputNext ==
    \/ \E key \in LiteralKeys :
           /\ Len(applied) < MaxTokens
           /\ ClickLiteral(key)
           /\ applied' = Append(applied, [key |-> key, shift |-> shift_mode])
           /\ UNCHANGED graph
    \/ toggle_shift /\ UNCHANGED <<applied, graph>>

SpecInput == Init /\ [][InputNext]_vars

----------------------------------------------------------------------------
(* Properties.  last holds the handler that ran last and the state it      *)
(* started from, so a property of a handler is a property of the state it  *)
(* leaves.                                                                 *)

\* The texts whose parse the model computes: for them an evaluator has one
\* outcome.
Computed(text) == parse_expr(CaretToPower(text)).k # "unknown"

DispatcherOps ==
    {"evaluate", "differentiate", "integrate", "solve_equation", "solve_ode",
     "fourier_transform", "matrix_operations"}

EditOps == {"delete", "clear", "toggle_shift"}

MemoryOps == {"memory_add", "memory_subtract"}

\* history is the history the handler started from and one entry more.
OneEntryMore ==
    /\ Len(history) = Len(last.hist) + 1
    /\ SubSeq(history, 1, Len(last.hist)) = last.hist

XSquared == <<"x","^","2">>
XSquaredMinusFour == <<"x","^","2","-","4","=","0">>
XMinusX == <<"x","-","x">>

----------------------------------------------------------------------------
\* The table of shift substitutions, digit by digit.
FixedTable ==
    [d \in Digits |->
        CASE d = "7" -> "x" [] d = "8" -> "y" [] d = "9" -> "z"
          [] d = "4" -> "a" [] d = "5" -> "b" [] d = "6" -> "c"
          [] d = "1" -> "d" [] d = "2" -> "e" [] d = "3" -> "f"
          [] d = "0" -> "g"]

\* The tokens of calls concatenated in order, a digit applied under shift
\* replaced by its letter.
RECURSIVE Concatenated(_)
Concatenated(calls) ==
    IF calls = <<>> THEN <<>>
    ELSE LET c == Head(calls)
         IN  (IF c.shift /\ Len(c.key) = 1 /\ c.key[1] \in Digits
              THEN <<FixedTable[c.key[1]]>>
              ELSE c.key)
             \o Concatenated(Tail(calls))

\* C1: after any sequence of literal and function tokens applied through
\* click(), with shift toggles anywhere between them, the buffer is the
\* tokens concatenated in order, each digit applied while the shift mode was
\* on replaced by its letter of the fixed table, every other token unchanged.
C1_Concatenation == expression = Concatenated(applied)

\* A shifted 7 followed by an unshifted sin.
C1_Witness ==
    /\ applied = << [key |-> <<"7">>, shift |-> TRUE],
                    [key |-> <<"s","i","n">>, shift |-> FALSE] >>
    /\ expression = <<"x","s","i","n">>

\* C2: clicking a named-function button (sin, cos, tan, log, ln, sqrt, exp,
\* power) appends the function's insertion prefix of func_map to the buffer,
\* not the button's label.
C2_InsertionPrefix ==
    last.op = "click" /\ last.key \in DOMAIN func_map
        => expression = last.expr \o func_map[last.key]

\* C3: differentiate on "x^2" and solve-equation on "x^2-4=0" read the '^' as
\* the power operator: the computation completes and the buffer is not the
\* "Error" sentinel.
C3_CaretIsPower ==
    /\ last.op = "differentiate" /\ last.expr = XSquared
          => last.ok /\ expression # ErrorText
    /\ last.op = "solve_equation" /\ last.expr = XSquaredMinusFour
          => last.ok /\ expression # ErrorText

\* C4: when evaluate succeeds on a buffer E with result R, the buffer becomes
\* the text of R and exactly one entry "E = R" is added, E being the buffer
\* as it stood when evaluate was triggered.
C4_EntryIsBuffer ==
    last.op = "evaluate" /\ last.ok /\ Computed(last.expr)
        => history = Append(last.hist, last.expr \o <<" = ">> \o expression)

\* C5 as stated: every dispatcher operation, whether it succeeds or fails,
\* adds exactly one history entry; delete, clear and the shift toggle add
\* none.
C5_AlwaysOneEntry ==
    /\ last.op \in DispatcherOps => OneEntryMore
    /\ last.op \in EditOps => history = last.hist

\* C5 amended: a dispatcher operation that succeeds adds exactly one history
\* entry, one that fails adds none; delete, clear and the shift toggle add
\* none.
C5_OneEntryOnSuccess ==
    /\ last.op \in DispatcherOps /\ last.ok => OneEntryMore
    /\ last.op \in DispatcherOps /\ ~last.ok => history = last.hist
    /\ last.op \in EditOps => history = last.hist

\* differentiate failed on "x^2" and the history is as it was.
C5_Witness ==
    /\ last.op = "differentiate"
    /\ last.expr = XSquared
    /\ ~last.ok
    /\ history = last.hist

\* C6: whatever exception the parser or the engine raises, a dispatcher
\* operation returns to its caller, and leaves the buffer "Error" (evaluate,
\* differentiate, integrate, solve-equation, fourier-transform, matrix-ops)
\* or "Error: <message>" (solve-ode).
C6_ErrorSentinel ==
    /\ last.op \in DispatcherOps => ~last.raised
    /\ last.op \in DispatcherOps \ {"solve_ode"} /\ ~last.ok
          => expression = ErrorText
    /\ last.op = "solve_ode" /\ ~last.ok
          => /\ Len(expression) >= 7
             /\ SubSeq(expression, 1, 7) = ErrorText \o <<":", " ">>

\* solve-equation caught the TypeError of "x^2-4=0".
C6_Witness ==
    /\ last.op = "solve_equation"
    /\ last.expr = XSquaredMinusFour
    /\ ~last.ok
    /\ ~last.raised
    /\ expression = ErrorText

\* C7: evaluating a buffer that holds a symbol outside allowed_names (here
\* x) ends with the buffer "Error", never with a numeric result or a raised
\* exception, also when the parser reduces the symbol to a number.
C7_SymbolIsError ==
    /\ last.op = "evaluate"
    /\ Computed(last.expr)
    /\ HasName(Lex(last.expr, 1))
    /\ <<"x">> \notin allowed_names
    => expression = ErrorText /\ ~last.ok /\ ~last.raised

\* The register and the buffer along the round trip; recalled is the text
\* recall() is to append.
RoundTrip(recalled) ==
    /\ Len(applied) \in {3, 4} => memory.val = 5
    /\ Len(applied) >= 5 => memory.val = 3
    /\ Len(applied) = 6 => /\ last.op = "memory_recall"
                           /\ expression = last.expr \o recalled

\* C8 as stated: from any state, clear() then add() on the buffer "5" sets
\* the register to 5, subtract() on the buffer "2" then sets it to 3, and
\* recall() then appends the text "3" to the buffer and leaves the register
\* at 3.
C8_RoundTrip == RoundTrip(<<"3">>)

\* C8 amended: the same round trip, recall() appending "3.0", the text of
\* the float the register holds.
C8_RoundTripFloat == RoundTrip(<<"3",".","0">>)

\* The round trip is done, recall() having appended to the buffer "2".
C8_Witness ==
    /\ Len(applied) = 6
    /\ last.op = "memory_recall"
    /\ last.expr = <<"2">>
    /\ expression = <<"2","3",".","0">>
    /\ memory = FloatMemory(3)

\* C9: memory add() and subtract() leave the buffer and the shift mode as
\* they were and add exactly one history entry; when evaluating the buffer
\* fails the register is unchanged and the entry is the error entry, when
\* it succeeds the register changes by exactly the evaluated value.
C9_MemoryFrame ==
    last.op \in MemoryOps =>
        /\ expression = last.expr
        /\ expr_var = last.expr
        /\ shift_mode = last.shift
        /\ ~last.raised
        /\ OneEntryMore
        /\ ~last.ok =>
              /\ memory = last.mem
              /\ history[Len(history)] \in
                    { <<"Memory Add Error">>, <<"Memory Subtract Error">> }
        /\ last.ok =>
              \E out \in FloatOutcomes(last.expr) :
                  /\ out.ok
                  /\ memory.val = last.mem.val
                        + (IF last.op = "memory_add" THEN out.val ELSE -out.val)

\* add() failed on "x-x" with 5 in the register.
C9_Witness ==
    /\ last.op = "memory_add"
    /\ last.expr = XMinusX
    /\ ~last.ok
    /\ last.mem = FloatMemory(5)
    /\ memory = FloatMemory(5)
    /\ history[Len(history)] = <<"Memory Add Error">>

\* C10: memory add() and subtract() succeed on a buffer exactly when
\* evaluate succeeds on it, and apply the value evaluate produces.
C10_SameStrategy ==
    last.op \in MemoryOps /\ Computed(last.expr) =>
        /\ last.ok <=> \E out \in EvaluateOutcomes(last.expr) : out.ok
        /\ last.ok =>
              \E out \in EvaluateOutcomes(last.expr) :
                  /\ out.ok
                  /\ out.text = IntStr(
                        IF last.op = "memory_add"
                        THEN memory.val - last.mem.val
                        ELSE last.mem.val - memory.val)

----------------------------------------------------------------------------
a_is_prefix_of_b(a, b) == Len(a) <= Len(b) /\ SubSeq(b, 1, Len(a)) = a

\* C11: delete-last on an empty buffer leaves it empty; on a non-empty
\* buffer it removes exactly the last character and leaves the characters
\* before it as they were.
C11_DeleteLast ==
    last.op = "delete" =>
        IF last.expr = <<>> THEN expression = <<>>
        ELSE /\ Len(expression) = Len(last.expr) - 1
             /\ expression \o <<last.expr[Len(last.expr)]>> = last.expr

\* Delete-last took the 2 from "x^2".
C11_Witness ==
    /\ last.op = "delete"
    /\ last.expr = XSquared
    /\ expression = <<"x","^">>

\* C12: clear empties the buffer and leaves the register, the shift mode and
\* the history as they were.
C12_ClearFrame ==
    last.op = "clear" =>
        /\ expression = <<>>
        /\ memory = last.mem
        /\ shift_mode = last.shift
        /\ history = last.hist

\* Clear ran with a buffer, a register, the shift mode on and a history.
C12_Witness ==
    /\ last.op = "clear"
    /\ last.expr = XSquared
    /\ last.shift
    /\ last.mem = FloatMemory(MaxStart)
    /\ last.hist # <<>>
    /\ expression = <<>>

\* C13: the mode toggle flips the shift mode, a toggle right after a toggle
\* restores the value before the first, and a toggle leaves the buffer, the
\* register and the history as they were.
C13_Toggle ==
    [][last'.op = "toggle_shift" =>
          /\ shift_mode' = ~shift_mode
          /\ expression' = expression
          /\ memory' = memory
          /\ history' = history
          /\ last.op = "toggle_shift" => shift_mode' = last.shift]_vars

\* A toggle turned the shift mode off again, over a buffer and a history.
C13_Witness ==
    /\ last.op = "toggle_shift"
    /\ last.shift
    /\ ~shift_mode
    /\ expression = XSquared
    /\ history # <<>>

EvaluationOps ==
    {"evaluate", "toDeg", "toRad", "differentiate", "integrate",
     "solve_equation", "solve_ode", "fourier_transform", "latex_render",
     "matrix_operations", "graph", "plot_graph"}

\* C14: no evaluation or trigger operation, succeeding or failing, changes
\* the shift mode or the register; the register changes only in memory
\* clear, add and subtract, the shift mode only in the mode toggle.
C14_ModeAndRegister ==
    /\ last.op \in EvaluationOps => shift_mode = last.shift /\ memory = last.mem
    /\ memory # last.mem =>
          last.op \in {"memory_clear", "memory_add", "memory_subtract"}
    /\ shift_mode # last.shift => last.op = "toggle_shift"

\* to-degrees succeeded with the shift mode on and a register.
C14_Witness ==
    /\ last.op = "toDeg"
    /\ last.ok
    /\ last.shift /\ shift_mode
    /\ last.mem = FloatMemory(MaxStart) /\ memory = last.mem

\* The handlers whose code calls add_history.
LoggingOps ==
    (DispatcherOps \cup MemoryOps)
    \cup {"toDeg", "toRad", "latex_render", "memory_clear", "memory_recall",
          "add_function_to_plot", "plot_graph"}

\* C15: the history before an operation is a prefix of the history after
\* it, and only the handlers that call add_history change it.
C15_AppendOnly ==
    /\ a_is_prefix_of_b(last.hist, history)
    /\ history # last.hist => last.op \in LoggingOps

\* Evaluate added its entry to a history that held one.
C15_Witness ==
    /\ last.op = "evaluate"
    /\ last.ok
    /\ last.hist # <<>>
    /\ history = Append(last.hist, <<"2","+","2">> \o <<" = ">> \o <<"4">>)

----------------------------------------------------------------------------
\* plot_graph has drawn a figure.
Drawn == graph.open /\ graph.plot # <<>>

\* series holds a series for the function text.
HasSeries(series, text) == \E j \in 1..Len(series) : series[j].label = text

C18_FailureStages ==
    Drawn =>
        LET p == graph.plot[1]
        IN  \A i \in 1..Len(p.funcs) :
               LET outcomes == PlotOutcomes(p.funcs[i], p.var)
               IN  /\ outcomes = {ParseError} =>
                        /\ ~HasSeries(p.series, p.funcs[i])
                        /\ Len(history) > Len(last.hist)
                   /\ outcomes = {SampleError} => HasSeries(p.series, p.funcs[i])
                   /\ outcomes \in {{Scalar}, {Array(Samples)}} =>
                        HasSeries(p.series, p.funcs[i])

\* The buffer when it holds more than blanks.
NonBlank(text) ==
    IF \A i \in 1..Len(text) : text[i] = " " THEN <<>> ELSE <<text>>

\* The text is no real number.
Unparsable(text) ==
    text = <<>> \/ \E i \in 1..Len(text) : text[i] \in NotInNumbers

----------------------------------------------------------------------------
\* The position of the first "=" of a text that holds one.
FirstEquals(text) == SetMin({j \in 1..Len(text) : text[j] = "="})

\* C20: solve_ode splits its input (after the dy/dx substitution) at the
\* first "=": when the input holds a "=", the left side is the text before
\* the first "=" and the right side everything after it; only an input
\* without "=" is taken as a whole expression equal to 0.
C20_SplitAtFirstEquals ==
    last.op = "solve_ode" /\ applied # <<>> =>
        LET m == applied[1]
            t == m.input
        IN  IF \E j \in 1..Len(t) : t[j] = "="
            THEN /\ m.found
                 /\ m.group1 = SubSeq(t, 1, FirstEquals(t) - 1)
                 /\ m.group2 = SubSeq(t, FirstEquals(t) + 1, Len(t))
            ELSE ~m.found

----------------------------------------------------------------------------
\* A "y" that is a word of its own and is not followed by "(".
HasBareY(text) ==
    \E i \in 1..Len(text) :
        /\ text[i] = "y"
        /\ (i = 1 \/ text[i - 1] \notin WordChars)
        /\ (i = Len(text) \/ text[i + 1] \notin WordChars \cup {"("})

\* C21: in solve_ode no text reaches parse_expr with a bare y in it: every
\* bare y has become y(x), on the left side, on the right side, and in an
\* input without "=".
C21_BareYEverywhere ==
    last.op = "solve_ode" /\ Len(applied) = 2 =>
        \A i \in 1..Len(applied[2]) : ~HasBareY(applied[2][i])

----------------------------------------------------------------------------
\* The operations that read the buffer: click() of a literal key, of "Del"
\* and of "=".
ReadingOps == {"click", "delete", "evaluate"}

\* C22: whenever a button or a shortcut reads the buffer, the buffer is the
\* text the entry shows, under every interleaving of key presses, key
\* releases and clicks; so the step of such an operation starts from a state
\* where expression and expr_var are equal.
C22_BufferIsEntry ==
    [][last'.op \in ReadingOps => expression = expr_var]_vars

====
